---- MODULE Spec2Model ----
(***************************************************************************)
(* hrgraph.js: heart-rate recordings (TCX markup or JSON cache) are parsed *)
(* per file through async.map, concatenated, sorted by timestamp, smoothed,*)
(* restricted to a time-of-day window, split into days and rendered.       *)
(*                                                                         *)
(* Timestamps are epoch milliseconds.  Local time is taken with a zero     *)
(* zone offset.  Every sample carries an `id` <<file, position>>: it       *)
(* stands for the identity of the JavaScript object and is never read by   *)
(* the program.                                                            *)
(***************************************************************************)
EXTENDS Integers, Sequences, FiniteSets, TLC

\* ------------------------------------------------------------------ bounds
MaxFiles == 2
MaxPoints == 3

\* -------------------------------------------------- JavaScript number values
\* NaN: what Date.parse returns for a string it cannot parse.
NaN == -1
\* Null: null / undefined (an option that was not given, a property not set,
\* d3.min of no numbers).
Null == -2

IsNaN(x) == x = NaN

Abs(x) == IF x < 0 THEN -x ELSE x

\* ------------------------------------------------------------ input domains
\* A <Time> element: absent, present with unparseable text, or present with
\* a text that denotes the instant `ms`.
TimeEl(present, parseable, ms) ==
    [present |-> present, parseable |-> parseable, ms |-> ms]
\* A <HeartRateBpm> element: absent, or present with <Value> text `value`.
HrEl(present, value) == [present |-> present, value |-> value]

NoTimeEl == TimeEl(FALSE, FALSE, 0)
BadTimeEl == TimeEl(TRUE, FALSE, 0)
NoHrEl == HrEl(FALSE, 0)

\* Date.parse(time_str)
DateParse(time) == IF time.parseable THEN time.ms ELSE NaN

SeqsUpTo(S, n) == UNION {[1..k -> S] : k \in 0..n}

\* A file: what fs.readFile delivers for it.
\*   "tcx"        content matching /^\s*</, with its Trackpoint elements
\*   "cache"      content matching /^\{/ that is valid JSON, with its datapoints
\*   "badjson"    content matching /^\{/ that JSON.parse rejects
\*   "unknown"    content matching neither pattern
\*   "unreadable" fs.readFile reports an error
File(kind, pts) == [kind |-> kind, pts |-> pts]

\* A data point as parseTcx builds it (or as the cache holds it); daysecond
\* is not set before main derives it.
Sample(id, hr, timestamp) ==
    [id |-> id, hr |-> hr, timestamp |-> timestamp, daysecond |-> Null]

TP(time, hr) == [time |-> time, hr |-> hr]

\* Single-file family: up to MaxPoints trackpoints, every one with a <Time>
\* (parseable or not) and a heart rate.
\* Times: 00:00:00 and 00:00:01 of day 0, 00:00:01 of day 1.
DataTrackpoints ==
    {TP(TimeEl(TRUE, TRUE, ms), HrEl(TRUE, h)) : ms \in {0, 1000, 86401000}, h \in {60, 66}}
    \cup {TP(BadTimeEl, HrEl(TRUE, 60))}
DataFiles == {File("tcx", pts) : pts \in SeqsUpTo(DataTrackpoints, MaxPoints)}

\* Multi-file family: every file holds at most one record, or fails.
SmallTrackpoints ==
    {TP(TimeEl(TRUE, TRUE, 0), HrEl(TRUE, 60)), TP(TimeEl(TRUE, TRUE, 1000), HrEl(TRUE, 60)),
     TP(BadTimeEl, HrEl(TRUE, 60)), TP(TimeEl(TRUE, TRUE, 0), NoHrEl),
     TP(NoTimeEl, HrEl(TRUE, 60))}
SmallDatapoints == {[hr |-> 66, timestamp |-> 0]}
SmallFiles ==
    {File("tcx", <<>>),
     File("badjson", <<>>), File("unknown", <<>>), File("unreadable", <<>>)}
    \cup {File("tcx", <<tp>>) : tp \in SmallTrackpoints}
    \cup {File("cache", <<dp>>) : dp \in SmallDatapoints}

\* --start-time / --end-time: not given, or "HH:MM[:SS]"
TimeOpt(given, h, m, s) == [given |-> given, h |-> h, m |-> m, s |-> s]
NoTimeOpt == TimeOpt(FALSE, 0, 0, 0)

Argv(smooth, start, end, cache, output) ==
    [smooth |-> smooth, start_time |-> start, end_time |-> end,
     cache |-> cache, output |-> output]

DataArgvs ==
    {Argv(sm, st, en, TRUE, TRUE) :
        sm \in {Null, 1},
        st \in {NoTimeOpt, TimeOpt(TRUE, 0, 0, 1)},
        en \in {NoTimeOpt, TimeOpt(TRUE, 0, 0, 0), TimeOpt(TRUE, 0, 0, 1)}}
SmallArgvs ==
    {Argv(sm, NoTimeOpt, NoTimeOpt, c, o) :
        sm \in {Null, 0}, c \in BOOLEAN, o \in BOOLEAN}

\* ------------------------------------------------------------------ parsing
RECURSIVE parseTcxLoop(_, _, _, _)
parseTcxLoop(trackpoints, f, i, res) ==
    IF i > Len(trackpoints) THEN [status |-> "ok", res |-> res]
    ELSE LET tp == trackpoints[i] IN
         \* tp.getElementsByTagName('Time')[0].textContent on undefined
         IF ~tp.time.present THEN [status |-> "throw", res |-> <<>>]
         ELSE IF ~tp.hr.present THEN parseTcxLoop(trackpoints, f, i + 1, res)
         ELSE parseTcxLoop(trackpoints, f, i + 1,
                  Append(res, Sample(<<f, i>>, tp.hr.value, DateParse(tp.time))))

parseTcx(trackpoints, f) == parseTcxLoop(trackpoints, f, 1, <<>>)

\* The outcome of parseFile for the f-th file argument:
\*   "ok"    cb(null, res)
\*   "err"   cb(err)
\*   "throw" an exception leaves the readFile callback
parseFile(file, f) ==
    CASE file.kind = "unreadable" -> [status |-> "err", res |-> <<>>]
      [] file.kind = "tcx" -> parseTcx(file.pts, f)
      [] file.kind = "badjson" -> [status |-> "throw", res |-> <<>>]
      [] file.kind = "cache" ->
            [status |-> "ok",
             res |-> [i \in 1..Len(file.pts) |->
                        Sample(<<f, i>>, file.pts[i].hr, file.pts[i].timestamp)]]
      [] OTHER -> [status |-> "err", res |-> <<>>]

\* -------------------------------------------------------------------- state
VARIABLES
    files,       \* argv._ : the contents of the input files, in argument order
    argv,        \* the options
    pc,          \* where the run is
    completed,   \* async.map: the files whose parseFile has called back with a result
    order,       \* history: the files in the order their parses called back
    dp_lists,    \* async.map: the results array
    datapoints,  \* main: var datapoints
    bounds,      \* main: min_daysecond, max_daysecond, min_hr, max_hr
    days,        \* main: var days
    cacheFile,   \* the file named by --cache
    htmlFile,    \* the file named by --output
    stdout       \* what console.log printed

vars == <<files, argv, pc, completed, order, dp_lists, datapoints, bounds, days,
          cacheFile, htmlFile, stdout>>

Unwritten == [written |-> FALSE, content |-> <<>>]
Written(content) == [written |-> TRUE, content |-> content]
NoBounds == [min_daysecond |-> Null, max_daysecond |-> Null,
             min_hr |-> Null, max_hr |-> Null]

Inputs ==
    {[files |-> <<f>>, argv |-> a] : f \in DataFiles, a \in DataArgvs}
    \cup {[files |-> fs, argv |-> a] :
            fs \in UNION {[1..n -> SmallFiles] : n \in 1..MaxFiles}, a \in SmallArgvs}

Init ==
    /\ \E in \in Inputs : files = in.files /\ argv = in.argv
    /\ pc = "parsing"
    /\ completed = {}
    /\ order = <<>>
    /\ dp_lists = [i \in 1..Len(files) |-> <<>>]
    /\ datapoints = <<>>
    /\ bounds = NoBounds
    /\ days = <<>>
    /\ cacheFile = Unwritten
    /\ htmlFile = Unwritten
    /\ stdout = Unwritten

\* ------------------------------------------------------- async.map(argv._)
\* Mutant of MapStore: results are kept in the order they arrive.
MapStoreInArrivalOrder(results, index, v, done) == [results EXCEPT ![done + 1] = v]

\* async.map keeps one slot per element of the array and stores each result
\* at the index of its file (`done` results were stored before this one).
MapStore(results, index, v, done) == [results EXCEPT ![index] = v]

AllCompleted(c) == c = 1..Len(files)

\* Mutant of NextStage: the time filter runs before the smoother.
NextStageFilterFirst(stage) ==
    CASE stage = "parsing" -> "aggregate"
      [] stage = "aggregate" -> "dayseconds"
      [] stage = "dayseconds" -> "filter"
      [] stage = "filter" -> "smooth"
      [] stage = "smooth" -> "bounds"
      [] stage = "bounds" -> "cache"
      [] stage = "cache" -> "split"
      [] stage = "split" -> "render"
      [] OTHER -> "done"

\* The order of the statements of the callback given to async.map.
NextStage(stage) ==
    CASE stage = "parsing" -> "aggregate"
      [] stage = "aggregate" -> "smooth"
      [] stage = "smooth" -> "dayseconds"
      [] stage = "dayseconds" -> "filter"
      [] stage = "filter" -> "bounds"
      [] stage = "bounds" -> "cache"
      [] stage = "cache" -> "split"
      [] stage = "split" -> "render"
      [] OTHER -> "done"

\* parseFile(argv._[i]) calls back with a result.  The last one to do so makes
\* async.map call main's callback with (null, dp_lists).
ParseOk(i) ==
    /\ pc = "parsing"
    /\ i \notin completed
    /\ parseFile(files[i], i).status = "ok"
    /\ dp_lists' = MapStore(dp_lists, i, parseFile(files[i], i).res, Cardinality(completed))
    /\ completed' = completed \cup {i}
    /\ order' = Append(order, i)
    /\ pc' = IF AllCompleted(completed') THEN NextStage("parsing") ELSE "parsing"
    /\ UNCHANGED <<files, argv, datapoints, bounds, days, cacheFile, htmlFile, stdout>>

\* Mutant of ParseErr: the error is dropped and the file counts as empty.
ParseErrIgnored(i) ==
    /\ pc = "parsing"
    /\ i \notin completed
    /\ parseFile(files[i], i).status = "err"
    /\ completed' = completed \cup {i}
    /\ order' = Append(order, i)
    /\ pc' = IF AllCompleted(completed') THEN NextStage("parsing") ELSE "parsing"
    /\ UNCHANGED <<files, argv, dp_lists, datapoints, bounds, days, cacheFile, htmlFile, stdout>>

\* parseFile calls back with an error: async.map calls main's callback with
\* it at once, and main's callback throws it (if (err) throw err).
ParseErr(i) ==
    /\ pc = "parsing"
    /\ i \notin completed
    /\ parseFile(files[i], i).status = "err"
    /\ order' = Append(order, i)
    /\ pc' = "aborted"
    /\ UNCHANGED <<files, argv, completed, dp_lists, datapoints, bounds, days, cacheFile, htmlFile, stdout>>

\* An exception leaves the readFile callback (JSON.parse, or textContent of a
\* missing <Time>): nothing catches it and the process ends.
ParseThrow(i) ==
    /\ pc = "parsing"
    /\ i \notin completed
    /\ parseFile(files[i], i).status = "throw"
    /\ order' = Append(order, i)
    /\ pc' = "crashed"
    /\ UNCHANGED <<files, argv, completed, dp_lists, datapoints, bounds, days,
                   cacheFile, htmlFile, stdout>>

\* ------------------------------------------------------ concatenate and sort
RECURSIVE Concat(_)
\* [].concat(...dp_lists)
Concat(lists) ==
    IF lists = <<>> THEN <<>>
    ELSE Concat(SubSeq(lists, 1, Len(lists) - 1)) \o lists[Len(lists)]

\* The comparison function handed to sort, as sort reads it: a NaN result
\* (either timestamp is NaN) counts as +0.
SortCompare(dp1, dp2) ==
    IF IsNaN(dp1.timestamp) \/ IsNaN(dp2.timestamp) THEN 0
    ELSE dp1.timestamp - dp2.timestamp

RECURSIVE InsertSorted(_, _)
InsertSorted(s, x) ==
    IF s = <<>> THEN <<x>>
    ELSE IF SortCompare(x, s[Len(s)]) < 0
         THEN Append(InsertSorted(SubSeq(s, 1, Len(s) - 1), x), s[Len(s)])
         ELSE Append(s, x)

RECURSIVE Sort(_)
\* Array.prototype.sort: stable.  With numeric timestamps every stable sort
\* gives this result.  With a NaN timestamp the comparison function is not
\* consistent and the language leaves the order to the engine; this is the
\* insertion sort the engine runs on arrays this short.
Sort(s) ==
    IF s = <<>> THEN <<>>
    ELSE InsertSorted(Sort(SubSeq(s, 1, Len(s) - 1)), s[Len(s)])

Aggregate ==
    /\ pc = "aggregate"
    /\ datapoints' = Sort(Concat(dp_lists))
    /\ pc' = NextStage("aggregate")
    /\ UNCHANGED <<files, argv, completed, order, dp_lists, bounds, days, cacheFile, htmlFile, stdout>>

\* ------------------------------------------------------------------- smooth
\* datapoints[0] of an empty array
Undefined == [id |-> <<0, 0>>, hr |-> Null, timestamp |-> Null, daysecond |-> Null]

\* (prev.timestamp + (secs * 1000) < dp.timestamp) || (Math.abs(dp.hr - prev.hr) > 5)
SmoothKeeps(prev, dp, secs) ==
    \/ /\ ~IsNaN(prev.timestamp)
       /\ ~IsNaN(dp.timestamp)
       /\ prev.timestamp + (secs * 1000) < dp.timestamp
    \/ Abs(dp.hr - prev.hr) > 5

RECURSIVE smoothLoop(_, _, _, _, _)
smoothLoop(dps, i, prev, res, secs) ==
    IF i > Len(dps) THEN res
    ELSE IF SmoothKeeps(prev, dps[i], secs)
         THEN smoothLoop(dps, i + 1, dps[i], Append(res, dps[i]), secs)
         ELSE smoothLoop(dps, i + 1, prev, res, secs)

\* Mutant of smooth: res starts empty instead of holding datapoints[0].
smoothUnseeded(dps, secs) ==
    IF dps = <<>> THEN <<Undefined>>
    ELSE smoothLoop(dps, 1, dps[1], <<>>, secs)

smooth(dps, secs) ==
    IF dps = <<>> THEN <<Undefined>>
    ELSE smoothLoop(dps, 1, dps[1], <<dps[1]>>, secs)

\* if (x): false for undefined, null, 0 and NaN
Truthy(x) == x # Null /\ x # 0 /\ ~IsNaN(x)

\* if (argv.smooth) datapoints = smooth(datapoints, parseInt(argv.smooth, 10))
MaybeSmooth(dps, secs) == IF Truthy(secs) THEN smooth(dps, secs) ELSE dps

SmoothStage ==
    /\ pc = "smooth"
    /\ datapoints' = MaybeSmooth(datapoints, argv.smooth)
    /\ pc' = NextStage("smooth")
    /\ UNCHANGED <<files, argv, completed, order, dp_lists, bounds, days, cacheFile, htmlFile, stdout>>

\* ---------------------------------------------------------------- daysecond
\* getHours() * 3600 + getMinutes() * 60 + getSeconds() of new Date(timestamp)
DaySecond(timestamp) ==
    IF IsNaN(timestamp) THEN NaN ELSE (timestamp \div 1000) % 86400

WithDaySeconds(dps) ==
    [i \in 1..Len(dps) |-> [dps[i] EXCEPT !.daysecond = DaySecond(dps[i].timestamp)]]

\* for (let dp of datapoints) ...: dp.timestamp of undefined throws
DaySecondStage ==
    /\ pc = "dayseconds"
    /\ IF \E i \in 1..Len(datapoints) : datapoints[i] = Undefined
       THEN pc' = "crashed" /\ UNCHANGED datapoints
       ELSE /\ datapoints' = WithDaySeconds(datapoints)
            /\ pc' = NextStage("dayseconds")
    /\ UNCHANGED <<files, argv, completed, order, dp_lists, bounds, days, cacheFile, htmlFile, stdout>>

\* --------------------------------------------------------------- time filter
_parse_time(t) == t.h * 3600 + t.m * 60 + t.s

\* argv['start-time'] ? _parse_time(argv['start-time']) : null
TimeBound(opt) == IF opt.given THEN _parse_time(opt) ELSE Null

\* dp.daysecond >= start_time
FromStart(dps, start_time) ==
    LET Test(dp) == ~IsNaN(dp.daysecond) /\ dp.daysecond >= start_time
    IN SelectSeq(dps, Test)

\* dp.daysecond <= end_time
UntilEnd(dps, end_time) ==
    LET Test(dp) == ~IsNaN(dp.daysecond) /\ dp.daysecond <= end_time
    IN SelectSeq(dps, Test)

TimeFilter(dps, start_time, end_time) ==
    LET started == IF Truthy(start_time) THEN FromStart(dps, start_time) ELSE dps
    IN IF Truthy(end_time) THEN UntilEnd(started, end_time) ELSE started

FilterStage ==
    /\ pc = "filter"
    /\ datapoints' = TimeFilter(datapoints, TimeBound(argv.start_time), TimeBound(argv.end_time))
    /\ pc' = NextStage("filter")
    /\ UNCHANGED <<files, argv, completed, order, dp_lists, bounds, days, cacheFile, htmlFile, stdout>>

\* ------------------------------------------------------------------- bounds
IsNumber(x) == x # Null /\ ~IsNaN(x)

\* d3.min(array, f): the least number among the f values, undefined if none
d3min(values) ==
    LET nums == {values[i] : i \in {j \in 1..Len(values) : IsNumber(values[j])}}
    IN IF nums = {} THEN Null ELSE CHOOSE m \in nums : \A n \in nums : m <= n

d3max(values) ==
    LET nums == {values[i] : i \in {j \in 1..Len(values) : IsNumber(values[j])}}
    IN IF nums = {} THEN Null ELSE CHOOSE m \in nums : \A n \in nums : m >= n

BoundsStage ==
    /\ pc = "bounds"
    /\ bounds' = [min_daysecond |-> d3min([i \in 1..Len(datapoints) |-> datapoints[i].daysecond]),
                  max_daysecond |-> d3max([i \in 1..Len(datapoints) |-> datapoints[i].daysecond]),
                  min_hr |-> d3min([i \in 1..Len(datapoints) |-> datapoints[i].hr]),
                  max_hr |-> d3max([i \in 1..Len(datapoints) |-> datapoints[i].hr])]
    /\ pc' = NextStage("bounds")
    /\ UNCHANGED <<files, argv, completed, order, dp_lists, datapoints, days, cacheFile, htmlFile, stdout>>

\* -------------------------------------------------------------------- cache
\* JSON.stringify of a number: NaN becomes null
JsonNumber(x) == IF IsNaN(x) THEN Null ELSE x

\* JSON.stringify({'datapoints': datapoints})
JsonStringify(dps) ==
    [i \in 1..Len(dps) |->
        [hr |-> JsonNumber(dps[i].hr), timestamp |-> JsonNumber(dps[i].timestamp),
         daysecond |-> JsonNumber(dps[i].daysecond)]]

CacheStage ==
    /\ pc = "cache"
    /\ cacheFile' = IF argv.cache THEN Written(JsonStringify(datapoints)) ELSE cacheFile
    /\ pc' = NextStage("cache")
    /\ UNCHANGED <<files, argv, completed, order, dp_lists, datapoints, bounds, days, htmlFile, stdout>>

\* ---------------------------------------------------------------- splitDays
\* getFullYear() + '-' + pad(getMonth() + 1) + '-' + pad(getDate()): the
\* calendar date, here as the number of the day ('NaN-NaN-NaN' as NaN)
DayOf(timestamp) ==
    IF IsNaN(timestamp) THEN NaN ELSE timestamp \div 86400000

\* data_by_day[day]: the position in res of the bucket of that day, 0 if none
BucketOf(res, day) ==
    IF \E j \in 1..Len(res) : DayOf(res[j].date) = day
    THEN CHOOSE j \in 1..Len(res) : DayOf(res[j].date) = day
    ELSE 0

RECURSIVE splitDaysLoop(_, _, _)
splitDaysLoop(dps, i, res) ==
    IF i > Len(dps) THEN res
    ELSE LET dp == dps[i]
             j == BucketOf(res, DayOf(dp.timestamp))
         IN IF j = 0
            THEN splitDaysLoop(dps, i + 1, Append(res, [date |-> dp.timestamp, data |-> <<dp>>]))
            ELSE splitDaysLoop(dps, i + 1, [res EXCEPT ![j].data = Append(@, dp)])

RECURSIVE splitDaysLoopPushInElse(_, _, _)
splitDaysLoopPushInElse(dps, i, res) ==
    IF i > Len(dps) THEN res
    ELSE LET dp == dps[i]
             j == BucketOf(res, DayOf(dp.timestamp))
         IN IF j = 0
            THEN splitDaysLoopPushInElse(dps, i + 1, Append(res, [date |-> dp.timestamp, data |-> <<>>]))
            ELSE splitDaysLoopPushInElse(dps, i + 1, [res EXCEPT ![j].data = Append(@, dp)])

\* Mutant of splitDays: d.push(dp) only happens for a bucket that exists.
splitDaysPushInElse(dps) == splitDaysLoopPushInElse(dps, 1, <<>>)

splitDays(dps) == splitDaysLoop(dps, 1, <<>>)

SplitStage ==
    /\ pc = "split"
    /\ days' = splitDays(datapoints)
    /\ pc' = NextStage("split")
    /\ UNCHANGED <<files, argv, completed, order, dp_lists, datapoints, bounds, cacheFile, htmlFile, stdout>>

\* ------------------------------------------------------------------- render
\* One h2 and one svg per day; plot draws day.data over the shared domains.
Html(ds, b) ==
    [i \in 1..Len(ds) |->
        [h2 |-> DayOf(ds[i].date),
         domain |-> b,
         line |-> [k \in 1..Len(ds[i].data) |->
                     <<ds[i].data[k].daysecond, ds[i].data[k].hr>>]]]

RenderStage ==
    /\ pc = "render"
    /\ IF argv.output
       THEN htmlFile' = Written(Html(days, bounds)) /\ UNCHANGED stdout
       ELSE stdout' = Written(Html(days, bounds)) /\ UNCHANGED htmlFile
    /\ pc' = NextStage("render")
    /\ UNCHANGED <<files, argv, completed, order, dp_lists, datapoints, bounds, days, cacheFile>>

\* ------------------------------------------------------------ specification
Next ==
    \/ \E i \in 1..Len(files) : ParseOk(i)
    \/ \E i \in 1..Len(files) : ParseErr(i)
    \/ \E i \in 1..Len(files) : ParseThrow(i)
    \/ Aggregate
    \/ SmoothStage
    \/ DaySecondStage
    \/ FilterStage
    \/ BoundsStage
    \/ CacheStage
    \/ SplitStage
    \/ RenderStage

Spec == Init /\ [][Next]_vars

\* =============================================================== properties
Pipeline == {"smooth", "dayseconds", "filter", "bounds", "cache", "split", "render", "done"}

\* The position of the sample with identity `id` in s.
PosOf(s, id) == CHOOSE k \in 1..Len(s) : s[k].id = id

\* C1: the aggregated sequence is a permutation of the concatenation of the
\* per-file sequences in file-argument order, its (numeric) timestamps never
\* decrease, and samples with equal timestamps keep the order they had in the
\* concatenation.  Fails: a NaN timestamp (see C9) makes the comparison
\* function answer NaN and the sort leaves numeric timestamps out of order.
C1_AggregatedSorted ==
    pc = "smooth" =>
        LET cat == Concat(dp_lists) IN
        /\ Len(datapoints) = Len(cat)
        /\ \A k \in 1..Len(cat) : \E j \in 1..Len(datapoints) : datapoints[j] = cat[k]
        /\ \A i, j \in 1..Len(datapoints) :
              (i < j /\ ~IsNaN(datapoints[i].timestamp) /\ ~IsNaN(datapoints[j].timestamp))
                  => datapoints[i].timestamp <= datapoints[j].timestamp
        /\ \A i, j \in 1..Len(datapoints) :
              (i < j /\ ~IsNaN(datapoints[i].timestamp)
                     /\ datapoints[i].timestamp = datapoints[j].timestamp)
                  => PosOf(cat, datapoints[i].id) < PosOf(cat, datapoints[j].id)

\* C9: a trackpoint without a heart rate contributes no sample and no error;
\* a trackpoint whose time cannot be parsed makes the parse of its file fail,
\* so no sample with an invalid timestamp is ever aggregated.  Fails:
\* Date.parse answers NaN and parseTcx pushes the sample with it.
C9_InvalidTimeFailsParse ==
    /\ \A i \in completed :
          files[i].kind = "tcx" =>
              \A k \in 1..Len(files[i].pts) :
                  /\ ~files[i].pts[k].hr.present
                        => \A j \in 1..Len(dp_lists[i]) : dp_lists[i][j].id # <<i, k>>
                  /\ files[i].pts[k].time.present => files[i].pts[k].time.parseable
    /\ pc \in Pipeline =>
          \A j \in 1..Len(datapoints) : ~IsNaN(datapoints[j].timestamp)

\* C2: if the parse of any input file fails, nothing is ever written: not the
\* cache file, not the HTML file, not the HTML on the standard output.
C2_NoPartialOutput ==
    (\E i \in 1..Len(files) : parseFile(files[i], i).status # "ok")
        => ~cacheFile.written /\ ~htmlFile.written /\ ~stdout.written

\* C2 witness: the run was aborted by a failed parse after another file had
\* been parsed, with a cache file asked for.
C2_Witness ==
    /\ pc = "aborted"
    /\ completed # {}
    /\ Len(order) >= 2
    /\ argv.cache

\* What the run computes from the files in argument order alone.
Expected ==
    TimeFilter(
        WithDaySeconds(
            MaybeSmooth(Sort(Concat([i \in 1..Len(files) |-> parseFile(files[i], i).res])),
                        argv.smooth)),
        TimeBound(argv.start_time), TimeBound(argv.end_time))

\* C3: whatever the order in which the parses complete, main's callback runs
\* only after all of them, and the processed samples, the cache contents and
\* the day buckets are those determined by the files in argument order.
C3_CompletionOrderIrrelevant ==
    /\ pc \in {"aggregate"} \cup Pipeline => completed = 1..Len(files)
    /\ pc \in {"bounds", "cache", "split", "render", "done"} => datapoints = Expected
    /\ cacheFile.written => cacheFile.content = JsonStringify(Expected)
    /\ pc \in {"render", "done"} => days = splitDays(Expected)

\* C3 witness: two files with data, the second parsed first, run finished.
C3_Witness ==
    /\ pc = "done"
    /\ order = <<2, 1>>
    /\ dp_lists[1] # <<>>
    /\ dp_lists[2] # <<>>
    /\ cacheFile.written

\* The sequence the callback sorted, recomputed from the results array.
Aggregated == Sort(Concat(dp_lists))

\* All timestamps are numbers and none is smaller than the one before it.
Ordered(dps) ==
    /\ \A i \in 1..Len(dps) : IsNumber(dps[i].timestamp)
    /\ \A i \in 1..Len(dps) - 1 : dps[i].timestamp <= dps[i + 1].timestamp

RECURSIVE ClaimedSmoothLoop(_, _, _, _, _)
ClaimedSmoothLoop(dps, i, last, res, minGapSeconds) ==
    IF i > Len(dps) THEN res
    ELSE IF \/ dps[i].timestamp >= last.timestamp + minGapSeconds * 1000
            \/ Abs(dps[i].hr - last.hr) > 5
         THEN ClaimedSmoothLoop(dps, i + 1, dps[i], Append(res, dps[i]), minGapSeconds)
         ELSE ClaimedSmoothLoop(dps, i + 1, last, res, minGapSeconds)

\* C4: smooth keeps the first sample, and each later sample exactly when it
\* lies at least minGapSeconds after the last kept one or its heart rate
\* differs from the last kept one's by more than 5.  Fails: smooth compares
\* with <, so a sample exactly minGapSeconds after the last kept one is dropped.
C4_SmoothKeepsAtLeastGap ==
    (pc = "dayseconds" /\ Truthy(argv.smooth) /\ Aggregated # <<>> /\ Ordered(Aggregated))
        => datapoints = ClaimedSmoothLoop(Aggregated, 2, Aggregated[1], <<Aggregated[1]>>,
                                          argv.smooth)

\* a is b with some elements left out: same samples, same relative order, none twice
IsSubsequence(a, b) ==
    /\ \A k \in 1..Len(a) : \E j \in 1..Len(b) : b[j] = a[k]
    /\ \A k \in 1..Len(a) - 1 : PosOf(b, a[k].id) < PosOf(b, a[k + 1].id)

\* C5: for a non-empty input and a positive gap, the output of smooth is a
\* sub-sequence of its input and starts with the input's first sample.
C5_SmoothSubsequence ==
    (pc = "dayseconds" /\ Truthy(argv.smooth) /\ argv.smooth > 0 /\ Aggregated # <<>>)
        => /\ Len(datapoints) >= 1
           /\ datapoints[1] = Aggregated[1]
           /\ IsSubsequence(datapoints, Aggregated)

\* C5 witness: smooth ran on three samples, dropped one and kept a later one.
C5_Witness ==
    /\ pc = "dayseconds"
    /\ Truthy(argv.smooth)
    /\ Len(Aggregated) = 3
    /\ Len(datapoints) = 2
    /\ Ordered(Aggregated)

\* The samples main hands to the time filter.
BeforeFilter == WithDaySeconds(MaybeSmooth(Aggregated, argv.smooth))

InWindowClaimed(dp) ==
    /\ argv.start_time.given
          => IsNumber(dp.daysecond) /\ dp.daysecond >= _parse_time(argv.start_time)
    /\ argv.end_time.given
          => IsNumber(dp.daysecond) /\ dp.daysecond <= _parse_time(argv.end_time)

\* C6: with a start bound given the result holds exactly the samples with
\* daysecond >= start, with an end bound given exactly those with
\* daysecond <= end, for every value of a bound, 00:00 included (stated for
\* samples whose timestamps are all numbers).  Fails: a bound of 00:00 parses
\* to 0, which main takes for "not given".
C6_TimeFilterInclusive ==
    (pc = "bounds" /\ Ordered(Aggregated))
        => datapoints = SelectSeq(BeforeFilter, InWindowClaimed)

\* C7: over a timestamp-ordered input splitDays makes one bucket per calendar
\* date, in the order the dates first occur, every bucket holding the samples
\* of its date, and the buckets' data concatenated is the input again.
C7_SplitDaysPartition ==
    (pc \in {"render", "done"} /\ Ordered(datapoints)) =>
        /\ \A a, b \in 1..Len(days) : a # b => DayOf(days[a].date) # DayOf(days[b].date)
        /\ {DayOf(days[k].date) : k \in 1..Len(days)}
              = {DayOf(datapoints[i].timestamp) : i \in 1..Len(datapoints)}
        /\ \A k \in 1..Len(days) :
              /\ days[k].data # <<>>
              /\ \A m \in 1..Len(days[k].data) :
                    DayOf(days[k].data[m].timestamp) = DayOf(days[k].date)
        /\ \A a, b \in 1..Len(days) :
              a < b => PosOf(datapoints, days[a].data[1].id) < PosOf(datapoints, days[b].data[1].id)
        /\ Concat([k \in 1..Len(days) |-> days[k].data]) = datapoints

\* C7 witness: three ordered samples over two days were split.
C7_Witness ==
    /\ pc = "done"
    /\ Ordered(datapoints)
    /\ Len(datapoints) = 3
    /\ Len(days) = 2

\* C8: with no sample left at the bounds stage the run ends in an error and
\* no document is produced.  Fails: main goes on and writes a document with
\* an empty body.
C8_EmptyInputIsAnError ==
    (pc = "done" /\ datapoints = <<>>) => ~htmlFile.written /\ ~stdout.written

\* The samples the claimed stage order would produce: time filter first,
\* smoother second (the smoother leaves an empty sequence empty).
FilterThenSmooth ==
    LET filtered == TimeFilter(WithDaySeconds(Aggregated),
                               TimeBound(argv.start_time), TimeBound(argv.end_time))
    IN IF filtered = <<>> THEN <<>> ELSE MaybeSmooth(filtered, argv.smooth)

====
